---- MODULE Spec2Model ----
(***************************************************************************)
(* Model of feed/scripts/fetch.py: the batch aggregator that loads a rule  *)
(* document, walks the OPML feed list, fetches and normalises entries,     *)
(* filters them (allowed_by_lists + per-source cap), sorts and de-dups,    *)
(* prepends the pinned items, truncates to max_items and writes the list.  *)
(*                                                                         *)
(* Text is a sequence of one-character strings, so that substring tests,   *)
(* case folding, stripping and URL parsing are computed.  Time is counted  *)
(* in whole days; an isoDate is the fixed-width digit text of a day.       *)
(* The item fields "category" and "image" are copied through by the code   *)
(* and read by nothing in the pipeline; they are left out of the records.  *)
(***************************************************************************)
EXTENDS Integers, Sequences, FiniteSets, TLC

VARIABLES data, rules, feeds, fi, cur, ei, log, clock,
          items, per_source_count, dedup, pi, out, pc,
          probe, verdict

\* data     the parsed rule document (load_rules, line 107)
\* rules    the rule set load_rules returns (main, line 283)
\* feeds    the feed list parse_opml returns (line 284)
\* fi, ei   positions of the loops "for f in feeds" and "for e in d.entries"
\* cur      d.entries of the feed being processed (line 292)
\* log      per fetched feed: the status of the fetch, the entries
\*          fetch_entries returned and the clock reading (history)
\* clock    the day time.gmtime() reads
\* items, per_source_count, dedup   main's locals of these names
\* pi       position of the loop "for p in rules.get('pin')"
\* out      the list written to OUT (line 348)
\* pc       the control position of main
\* probe, verdict   an item and what allowed_by_lists returns for it
vars == <<data, rules, feeds, fi, cur, ei, log, clock,
          items, per_source_count, dedup, pi, out, pc, probe, verdict>>

\* ----------------------------------------------------------------- bounds
MaxFeeds   == 2
MaxEntries == 2
MaxPins    == 2
MaxClock   == 12

\* ------------------------------------------------------ program constants
DefaultMaxItems   == 500
DefaultMaxAgeDays == 36500
DefaultMinTitle   == 0
NoCap             == 1000000000

\* ------------------------------------------------------------------ text
Min(a, b) == IF a < b THEN a ELSE b
Max(a, b) == IF a > b THEN a ELSE b

\* str.casefold() / str.lower() on the model's alphabet
FoldChar(c) == CASE c = "A" -> "a" [] c = "X" -> "x" [] OTHER -> c
casefold(s) == [i \in 1..Len(s) |-> FoldChar(s[i])]

\* Python's  n in t  on strings
IsSubstr(n, t) == \E i \in 0..(Len(t) - Len(n)) : SubSeq(t, i + 1, i + Len(n)) = n

\* str.strip()
RECURSIVE LStrip(_)
LStrip(s) == IF s # <<>> /\ s[1] = " " THEN LStrip(Tail(s)) ELSE s
RECURSIVE RStrip(_)
RStrip(s) == IF s # <<>> /\ s[Len(s)] = " " THEN RStrip(SubSeq(s, 1, Len(s) - 1)) ELSE s
strip(s) == RStrip(LStrip(s))

\* hashlib.sha1(...).hexdigest(): an injective tag on the hashed text
sha1(s) == <<"#">> \o s

\* time.strftime("%Y-%m-%dT%H:%M:%SZ", t): fixed-width digits of the day
DigitChar(d) == CASE d = 0 -> "0" [] d = 1 -> "1" [] d = 2 -> "2" [] d = 3 -> "3"
                  [] d = 4 -> "4" [] d = 5 -> "5" [] d = 6 -> "6" [] d = 7 -> "7"
                  [] d = 8 -> "8" [] OTHER -> "9"
DigitVal(c) == CASE c = "0" -> 0 [] c = "1" -> 1 [] c = "2" -> 2 [] c = "3" -> 3
                 [] c = "4" -> 4 [] c = "5" -> 5 [] c = "6" -> 6 [] c = "7" -> 7
                 [] c = "8" -> 8 [] OTHER -> 9
strftime(t) == <<DigitChar((t \div 10) % 10), DigitChar(t % 10)>>
strptime(s) == DigitVal(s[1]) * 10 + DigitVal(s[2])
now_iso(t) == strftime(t)

\* Python's string order on two isoDate texts:  a > b
IsoGreater(a, b) ==
    \/ DigitVal(a[1]) > DigitVal(b[1])
    \/ a[1] = b[1] /\ DigitVal(a[2]) > DigitVal(b[2])

\* urlparse(url).netloc: text between "scheme://" and the next "/", "?", "#"
RECURSIVE UntilDelim(_)
UntilDelim(s) ==
    IF s = <<>> \/ s[1] \in {"/", "?", "#"} THEN <<>>
    ELSE <<s[1]>> \o UntilDelim(Tail(s))
SchemeEnd(u) ==
    IF \E i \in 2..Len(u) : u[i] = ":" /\ \A j \in 1..(i - 1) : u[j] \notin {":", "/", "?", "#", ".", " "}
    THEN CHOOSE i \in 2..Len(u) : u[i] = ":" /\ \A j \in 1..(i - 1) : u[j] \notin {":", "/", "?", "#", ".", " "}
    ELSE 0
netloc(u) ==
    LET rest == SubSeq(u, SchemeEnd(u) + 1, Len(u))
    IN  IF Len(rest) >= 2 /\ rest[1] = "/" /\ rest[2] = "/"
        THEN UntilDelim(SubSeq(rest, 3, Len(rest)))
        ELSE <<>>
to_domain(url) ==
    LET host == casefold(netloc(url))
    IN  IF Len(host) >= 4 /\ SubSeq(host, 1, 4) = <<"w", "w", "w", ".">>
        THEN SubSeq(host, 5, Len(host))
        ELSE host

\* ------------------------------------------------- the rule document (YAML)
\* A scalar of the document: k is its YAML type, n its numeric value.
\*   absent: key missing   null: ~     int: n    numstr: the digits of n as
\*   a string   str: a non-numeric string   list: a non-empty list
Absent    == [k |-> "absent", n |-> 0]
Null      == [k |-> "null",   n |-> 0]
IntV(n)   == [k |-> "int",    n |-> n]
NumStr(n) == [k |-> "numstr", n |-> n]
StrV      == [k |-> "str",    n |-> 0]
ListV     == [k |-> "list",   n |-> 0]

\* A list field: k in absent / null / list / str (a bare string v[1])
LAbsent  == [k |-> "absent", v |-> <<>>]
LNull    == [k |-> "null",   v |-> <<>>]
LList(v) == [k |-> "list",   v |-> v]
LStr(s)  == [k |-> "str",    v |-> <<s>>]

\* A pin element: a mapping {url, title, note} or a bare string (kept in url)
PinMap(u, t, n) == [ismap |-> TRUE,  url |-> u, title |-> t, note |-> n]
PinStr(s)       == [ismap |-> FALSE, url |-> s, title |-> <<>>, note |-> <<>>]
\* The pin field: absent / null / list of elements / str / map (one mapping)
PAbsent  == [k |-> "absent", v |-> <<>>]
PList(v) == [k |-> "list",   v |-> v]
PStr(s)  == [k |-> "str",    v |-> <<PinStr(s)>>]
POne(p)  == [k |-> "map",    v |-> <<p>>]

\* max_per_source: a mapping key -> scalar, or something that is no mapping
MAbsent  == [k |-> "absent", m |-> <<>>]
MMap(m)  == [k |-> "map",    m |-> m]
MOther   == [k |-> "str",    m |-> <<>>]

ListFields == {"include_keywords", "blocklist_keywords", "include_sources",
               "exclude_sources", "include_authors", "exclude_authors",
               "include_tags", "exclude_tags"}

\* load_rules: int(out.get(k, dflt) or dflt) inside try/except
IntOrDefault(s, dflt) ==
    CASE s.k = "absent" -> dflt
      [] s.k = "null"   -> dflt
      [] s.k = "int"    -> IF s.n = 0 THEN dflt ELSE s.n
      [] s.k = "numstr" -> s.n
      [] OTHER          -> dflt

\* load_rules._as_list
AsList(x) ==
    CASE x.k = "list" -> x.v
      [] x.k = "str"  -> IF x.v[1] = <<>> THEN <<>> ELSE x.v
      [] x.k = "map"  -> x.v
      [] OTHER        -> <<>>

\* load_rules._as_dict
AsDict(x) == IF x.k = "map" THEN x.m ELSE <<>>

defaults ==
    [min_title_length |-> DefaultMinTitle, max_items |-> DefaultMaxItems,
     max_age_days |-> DefaultMaxAgeDays,
     include_keywords |-> <<>>, blocklist_keywords |-> <<>>,
     include_sources |-> <<>>, exclude_sources |-> <<>>,
     include_authors |-> <<>>, exclude_authors |-> <<>>,
     include_tags |-> <<>>, exclude_tags |-> <<>>,
     max_per_source |-> <<>>, pin |-> <<>>]

\* load_rules on a document whose top level is a mapping (or empty/absent)
load_rules(d) ==
    IF d.top \in {"absent", "empty"} THEN defaults
    ELSE [min_title_length |-> IntOrDefault(d.min_title_length, DefaultMinTitle),
          max_items        |-> IntOrDefault(d.max_items, DefaultMaxItems),
          max_age_days     |-> IntOrDefault(d.max_age_days, DefaultMaxAgeDays),
          include_keywords   |-> AsList(d.include_keywords),
          blocklist_keywords |-> AsList(d.blocklist_keywords),
          include_sources    |-> AsList(d.include_sources),
          exclude_sources    |-> AsList(d.exclude_sources),
          include_authors    |-> AsList(d.include_authors),
          exclude_authors    |-> AsList(d.exclude_authors),
          include_tags       |-> AsList(d.include_tags),
          exclude_tags       |-> AsList(d.exclude_tags),
          max_per_source     |-> AsDict(d.max_per_source),
          pin                |-> AsList(d.pin)]

\* ------------------------------------------------------- normalisation
\* A parsed feed entry: text fields are <<>> when missing, the two parsed
\* times are 0 when missing, tags is a sequence of [term, label].

\* _iso_from_entry: published, else updated, else the clock
iso_from_entry(e, now) ==
    IF e.published_parsed # 0 THEN strftime(e.published_parsed)
    ELSE IF e.updated_parsed # 0 THEN strftime(e.updated_parsed)
    ELSE now_iso(now)

\* collect_tags: term or label, tags with neither are skipped
RECURSIVE collect_tags(_)
collect_tags(ts) ==
    IF ts = <<>> THEN <<>>
    ELSE LET term == IF ts[1].term # <<>> THEN ts[1].term ELSE ts[1].label
         IN  (IF term # <<>> THEN <<term>> ELSE <<>>) \o collect_tags(Tail(ts))

norm_item(e, feed_title, now) ==
    LET ts      == iso_from_entry(e, now)
        link    == strip(e.link)
        raw_uid == IF link # <<>> THEN link ELSE e.title \o ts
    IN  [id |-> sha1(raw_uid), title |-> strip(e.title), link |-> link,
         summary |-> strip(e.summary), isoDate |-> ts, source |-> feed_title,
         author |-> strip(e.author), tags |-> collect_tags(e.tags),
         pinned |-> FALSE]

\* _age_days: days between the isoDate and the clock
age_days(iso, now) == now - strptime(iso)

\* --------------------------------------------------------- rule evaluator
\* matches_any without the "if not n: continue" line
matches_any_keep_empty(text, needles) ==
    \E i \in 1..Len(needles) : IsSubstr(casefold(needles[i]), casefold(text))

matches_any(text, needles) ==
    \E i \in 1..Len(needles) :
        /\ needles[i] # <<>>
        /\ IsSubstr(casefold(needles[i]), casefold(text))

allowed_by_lists(it, r, now) ==
    LET text    == it.title \o <<" ">> \o it.summary
        dom     == to_domain(it.link)
        src_hit == casefold(IF it.source # <<>> THEN it.source ELSE dom)
        auth    == casefold(it.author)
        tags    == {casefold(it.tags[i]) : i \in 1..Len(it.tags)}
    IN  IF r.include_keywords # <<>> /\ ~matches_any(text, r.include_keywords) THEN FALSE
        ELSE IF matches_any(text, r.blocklist_keywords) THEN FALSE
        ELSE IF age_days(it.isoDate, now) > r.max_age_days THEN FALSE
        ELSE IF r.include_sources # <<>>
                /\ ~\E i \in 1..Len(r.include_sources) :
                       casefold(r.include_sources[i]) \in {src_hit, dom} THEN FALSE
        ELSE IF \E i \in 1..Len(r.exclude_sources) :
                   LET s == casefold(r.exclude_sources[i])
                   IN  s # <<>> /\ (IsSubstr(s, src_hit) \/ s = dom) THEN FALSE
        ELSE IF r.include_authors # <<>>
                /\ ~\E i \in 1..Len(r.include_authors) :
                       r.include_authors[i] # <<>>
                       /\ IsSubstr(casefold(r.include_authors[i]), auth) THEN FALSE
        ELSE IF \E i \in 1..Len(r.exclude_authors) :
                   r.exclude_authors[i] # <<>>
                   /\ IsSubstr(casefold(r.exclude_authors[i]), auth) THEN FALSE
        ELSE IF r.include_tags # <<>>
                /\ ~\E i \in 1..Len(r.include_tags) :
                       casefold(r.include_tags[i]) \in tags THEN FALSE
        ELSE IF \E i \in 1..Len(r.exclude_tags) :
                   casefold(r.exclude_tags[i]) \in tags THEN FALSE
        ELSE IF Len(it.title) < r.min_title_length THEN FALSE
        ELSE TRUE

\* ------------------------------------------------------------ fetching
\* a fetch whose failure still hands the body to the parser
fetch_entries_keep_body(resp) == resp.body

\* A response: status "ok", "timeout", "neterr" or "http" (non-2xx), and
\* the entries its body would parse to.
fetch_entries(resp) == IF resp.status = "ok" THEN resp.body ELSE <<>>

\* ------------------------------------------------------ per-source cap
cap_key(f) == IF f.title # <<>> THEN f.title ELSE to_domain(f.url)

\* int(caps_map.get(cap_key, 10**9)) inside try/except
cap_of(r, key) ==
    IF key \notin DOMAIN r.max_per_source THEN NoCap
    ELSE LET s == r.max_per_source[key]
         IN  IF s.k \in {"int", "numstr"} THEN s.n ELSE NoCap

\* setdefault replaced by a plain assignment: the count restarts at every feed
setdefault_reset(cnt, key) ==
    [k \in DOMAIN cnt \cup {key} |-> IF k = key THEN 0 ELSE cnt[k]]

\* per_source_count.setdefault(cap_key, 0)
setdefault(cnt, key) == IF key \in DOMAIN cnt THEN cnt ELSE cnt @@ (key :> 0)

\* the cap test written with > instead of >=: one item too many is kept
entry_step_off_by_one(st, e, f, k, r, now) ==
    LET it  == norm_item(e, f.title, now)
        key == cap_key(f)
    IN  IF ~allowed_by_lists(it, r, now) THEN st
        ELSE IF st.cnt[key] > cap_of(r, key) THEN st
        ELSE [items |-> Append(st.items, it @@ [seq |-> Len(st.items) + 1, feed |-> k]),
              cnt   |-> [st.cnt EXCEPT ![key] = @ + 1]]

\* One pass of the entry loop body: the item is appended unless it is
\* filtered or the cap is reached.  st = [items, cnt]; the fields seq and
\* feed of an appended item record its position in items and the index of
\* the feed it came from.
entry_step(st, e, f, k, r, now) ==
    LET it  == norm_item(e, f.title, now)
        key == cap_key(f)
    IN  IF ~allowed_by_lists(it, r, now) THEN st
        ELSE IF st.cnt[key] >= cap_of(r, key) THEN st
        ELSE [items |-> Append(st.items, it @@ [seq |-> Len(st.items) + 1, feed |-> k]),
              cnt   |-> [st.cnt EXCEPT ![key] = @ + 1]]

\* ------------------------------------------------- sort, de-dup, pin, cap
\* a sort that is not stable: items of one isoDate come out in reverse
ComesBefore_unstable(its, i, j) ==
    \/ IsoGreater(its[i].isoDate, its[j].isoDate)
    \/ its[i].isoDate = its[j].isoDate /\ i > j

\* the order sorted(items, key=isoDate, reverse=True) puts items i and j in:
\* newest first, and stable (items of one isoDate keep their order in items)
ComesBefore(its, i, j) ==
    \/ IsoGreater(its[i].isoDate, its[j].isoDate)
    \/ its[i].isoDate = its[j].isoDate /\ i < j

sorted_desc(its) ==
    [p \in 1..Len(its) |->
        its[CHOOSE i \in 1..Len(its) :
                Cardinality({j \in 1..Len(its) : ComesBefore(its, j, i)}) = p - 1]]

\* key = it["link"] or it["id"]
dedup_key(it) == IF it.link # <<>> THEN it.link ELSE it.id

\* a de-dup in which the last occurrence of a key replaces the kept one
RECURSIVE dedup_loop_last(_, _, _)
dedup_loop_last(srt, seen, acc) ==
    IF srt = <<>> THEN acc
    ELSE LET key == IF srt[1].link # <<>> THEN srt[1].link ELSE srt[1].id
         IN  IF key \in seen
             THEN dedup_loop_last(Tail(srt), seen,
                    [i \in 1..Len(acc) |->
                        IF (IF acc[i].link # <<>> THEN acc[i].link ELSE acc[i].id) = key
                        THEN srt[1] ELSE acc[i]])
             ELSE dedup_loop_last(Tail(srt), seen \cup {key}, Append(acc, srt[1]))

\* the seen/dedup loop over the sorted items
RECURSIVE dedup_loop(_, _, _)
dedup_loop(srt, seen, acc) ==
    IF srt = <<>> THEN acc
    ELSE LET key == dedup_key(srt[1])
         IN  IF key \in seen THEN dedup_loop(Tail(srt), seen, acc)
             ELSE dedup_loop(Tail(srt), seen \cup {key}, Append(acc, srt[1]))

\* the item built for one pin mapping
pin_item(p, now) ==
    [id |-> sha1(IF p.url # <<>> THEN p.url ELSE p.title), title |-> p.title,
     link |-> p.url, summary |-> p.note, isoDate |-> now_iso(now),
     source |-> <<"P", "i", "n", "n", "e", "d">>, author |-> <<>>, tags |-> <<>>,
     pinned |-> TRUE, seq |-> 0, feed |-> 0]

\* a pin that is checked against the keys already in the list
pin_insert_deduped(d, it) ==
    IF \E i \in 1..Len(d) : dedup_key(d[i]) = dedup_key(it) THEN d ELSE <<it>> \o d

\* dedup.insert(0, item)
pin_insert(d, it) == <<it>> \o d

\* dedup[:max_items], Python's slice: a negative bound counts from the end
slice_to(d, m) ==
    IF m >= 0 THEN SubSeq(d, 1, Min(m, Len(d)))
    ELSE SubSeq(d, 1, Max(Len(d) + m, 0))

\* ------------------------------------------------------------- inputs
Now0 == MaxClock - 1

U1 == <<"h", ":", "/", "/", "x", "/", "1">>
U2 == <<"h", ":", "/", "/", "w", "w", "w", ".", "X", "/", "2">>

Entry(t, l, s, a, tg, pub, upd) ==
    [title |-> t, link |-> l, summary |-> s, author |-> a, tags |-> tg,
     published_parsed |-> pub, updated_parsed |-> upd]
Tag(term, label) == [term |-> term, label |-> label]

E1 == Entry(<<"a">>, U1, <<>>, <<>>, <<>>, 9, 10)
E2 == Entry(<<"A", "b">>, U1 \o <<" ">>, <<>>, <<"A">>, <<Tag(<<>>, <<"t">>)>>, 10, 9)
E3 == Entry(<<"b">>, <<>>, <<" ", "a">>, <<>>, <<>>, 0, 9)
E4 == Entry(<<"a", "b">>, U2, <<>>, <<>>, <<>>, 0, 0)
EntrySeq == <<E1, E2, E3, E4>>

\* the contiguous runs of a sequence, of length at most n
Runs(sq, n) ==
    {<<>>} \cup UNION {{SubSeq(sq, i, j) : j \in i..Min(Len(sq), i + n - 1)} : i \in 1..Len(sq)}

\* the entry lists a feed body can parse to
Bodies == Runs(EntrySeq, MaxEntries)

Responses ==
    [status : {"ok"}, body : Bodies]
      \cup {[status |-> "timeout", body |-> <<>>],
            [status |-> "http", body |-> <<E1>>]}

Feed(t, u) == [title |-> t, url |-> u]
FA == Feed(<<"A">>, <<"h", ":", "/", "/", "y", "/", "f">>)
FB == Feed(<<>>, <<"h", ":", "/", "/", "w", "w", "w", ".", "x", "/", "f">>)
FC == Feed(<<>>, <<"h", ":", "/", "/", "X", "/", "g">>)
FeedSeq == <<FB, FC, FA>>

\* the feed lists parse_opml can return
FeedLists == Runs(FeedSeq, MaxFeeds)

P1 == PinMap(U1, <<"p">>, <<>>)
P2 == PinMap(<<>>, <<"b">>, <<"n">>)
P3 == PinMap(U2, <<>>, <<>>)
PinSeq == <<P1, P2, P3>>
PinLists == {SubSeq(PinSeq, 1, n) : n \in 0..Min(MaxPins, Len(PinSeq))}

D0 ==
    [top |-> "map", min_title_length |-> Absent, max_items |-> Absent,
     max_age_days |-> Absent,
     include_keywords |-> LAbsent, blocklist_keywords |-> LAbsent,
     include_sources |-> LAbsent, exclude_sources |-> LAbsent,
     include_authors |-> LAbsent, exclude_authors |-> LAbsent,
     include_tags |-> LAbsent, exclude_tags |-> LAbsent,
     max_per_source |-> MAbsent, pin |-> PAbsent]

KeyA == <<"A">>
KeyX == <<"x">>

\* documents that vary max_items and the pins
DocsCap ==
    {[D0 EXCEPT !.max_items = m, !.pin = PList(ps)] :
        m \in {IntV(-1), IntV(0), IntV(1), IntV(2)}, ps \in PinLists}

\* documents that vary the per-source caps and the filters
DocsSrc ==
    {[D0 EXCEPT !.max_per_source = MMap(KeyA :> IntV(1))],
     [D0 EXCEPT !.max_per_source = MMap(KeyX :> IntV(1))],
     [D0 EXCEPT !.max_per_source = MMap(KeyX :> IntV(-1))],
     [D0 EXCEPT !.max_per_source = MMap((KeyA :> IntV(0)) @@ (KeyX :> NumStr(2)))],
     [D0 EXCEPT !.max_per_source = MMap(KeyX :> StrV), !.max_items = NumStr(0)],
     [D0 EXCEPT !.max_per_source = MOther, !.blocklist_keywords = LStr(<<"B">>),
                !.pin = PList(<<P2>>)],
     [D0 EXCEPT !.max_age_days = IntV(1), !.pin = POne(P1)],
     [D0 EXCEPT !.min_title_length = IntV(2), !.max_items = StrV,
                !.include_keywords = LList(<<<<"a">>>>)],
     [D0 EXCEPT !.min_title_length = ListV, !.max_age_days = StrV,
                !.exclude_tags = LNull, !.include_sources = LStr(<<>>)],
     [D0 EXCEPT !.top = "empty"],
     [D0 EXCEPT !.top = "absent"]}

\* documents whose shape the normalisation does not repair
DocsBad ==
    {[D0 EXCEPT !.top = "scalar"],
     [D0 EXCEPT !.pin = PStr(<<"x">>)],
     [D0 EXCEPT !.pin = PList(<<P1, PinStr(<<"x">>)>>)]}

DocsWF  == DocsCap \cup DocsSrc
DocsAny == DocsWF \cup DocsBad

NoItem == norm_item(Entry(<<>>, <<>>, <<>>, <<>>, <<>>, 0, 0), <<>>, Now0)

\* ------------------------------------------------------- state machine
\* pc: load -> opml -> loop <-> entries -> pin -> write -> done, or
\* "opml_error" (parse_opml raised) or "crash" (an uncaught exception).
Init ==
    /\ data \in DocsAny
    /\ rules = defaults
    /\ feeds = <<>> /\ fi = 0 /\ cur = <<>> /\ ei = 0 /\ log = <<>>
    /\ clock = Now0
    /\ items = <<>> /\ per_source_count = <<>>
    /\ dedup = <<>> /\ pi = 0 /\ out = <<>>
    /\ pc = "load"
    /\ probe = NoItem /\ verdict = TRUE

\* rules = load_rules(RULES); {**defaults, **data} raises when the document
\* is neither empty nor a mapping
LoadRules ==
    /\ pc = "load"
    /\ IF data.top = "scalar"
       THEN pc' = "crash" /\ rules' = rules
       ELSE pc' = "opml" /\ rules' = load_rules(data)
    /\ UNCHANGED <<data, feeds, fi, cur, ei, log, clock, items,
                   per_source_count, dedup, pi, out, probe, verdict>>

\* feeds = parse_opml(OPML)
ParseOpml ==
    /\ pc = "opml"
    /\ \E fs \in FeedLists : feeds' = fs
    /\ fi' = 1
    /\ pc' = "loop"
    /\ UNCHANGED <<data, rules, cur, ei, log, clock, items,
                   per_source_count, dedup, pi, out, probe, verdict>>

\* parse_opml raises RuntimeError on an unreadable or malformed outline
OpmlError ==
    /\ pc = "opml"
    /\ pc' = "opml_error"
    /\ UNCHANGED <<data, rules, feeds, fi, cur, ei, log, clock, items,
                   per_source_count, dedup, pi, out, probe, verdict>>

\* head of one pass of "for f in feeds": the fetch, the cap key and setdefault
FetchFeed ==
    /\ pc = "loop" /\ fi <= Len(feeds)
    /\ \E resp \in Responses, dt \in {0, 1} :
          /\ clock + dt <= MaxClock
          /\ clock' = clock + dt
          /\ cur' = fetch_entries(resp)
          /\ log' = Append(log, [status |-> resp.status, got |-> fetch_entries(resp),
                                 at |-> clock + dt])
    /\ per_source_count' = setdefault(per_source_count, cap_key(feeds[fi]))
    /\ ei' = 1
    /\ pc' = "entries"
    /\ UNCHANGED <<data, rules, feeds, fi, items, dedup, pi, out, probe, verdict>>

\* one pass of "for e in d.entries"
ProcessEntry ==
    /\ pc = "entries" /\ ei <= Len(cur)
    /\ LET st == entry_step([items |-> items, cnt |-> per_source_count],
                            cur[ei], feeds[fi], fi, rules, clock)
       IN  items' = st.items /\ per_source_count' = st.cnt
    /\ ei' = ei + 1
    /\ UNCHANGED <<data, rules, feeds, fi, cur, log, clock, dedup, pi, out, pc,
                   probe, verdict>>

\* the entry loop is exhausted: on to the next feed
EndFeed ==
    /\ pc = "entries" /\ ei > Len(cur)
    /\ fi' = fi + 1
    /\ pc' = "loop"
    /\ UNCHANGED <<data, rules, feeds, cur, ei, log, clock, items,
                   per_source_count, dedup, pi, out, probe, verdict>>

\* the feed loop is exhausted: sort newest first and de-dup
SortDedup ==
    /\ pc = "loop" /\ fi > Len(feeds)
    /\ dedup' = dedup_loop(sorted_desc(items), {}, <<>>)
    /\ pi' = 1
    /\ pc' = "pin"
    /\ UNCHANGED <<data, rules, feeds, fi, cur, ei, log, clock, items,
                   per_source_count, out, probe, verdict>>

\* one pass of "for p in rules.get('pin')": p.get raises on a non-mapping
PinStep ==
    /\ pc = "pin" /\ pi <= Len(rules.pin)
    /\ IF rules.pin[pi].ismap
       THEN /\ dedup' = pin_insert(dedup, pin_item(rules.pin[pi], clock))
            /\ pi' = pi + 1
            /\ pc' = pc
       ELSE /\ pc' = "crash"
            /\ UNCHANGED <<dedup, pi>>
    /\ UNCHANGED <<data, rules, feeds, fi, cur, ei, log, clock, items,
                   per_source_count, out, probe, verdict>>

\* dedup = dedup[:max_items]
Truncate ==
    /\ pc = "pin" /\ pi > Len(rules.pin)
    /\ dedup' = slice_to(dedup, rules.max_items)
    /\ pc' = "write"
    /\ UNCHANGED <<data, rules, feeds, fi, cur, ei, log, clock, items,
                   per_source_count, pi, out, probe, verdict>>

\* OUT.write_text(json.dumps(dedup, ...))
WriteOut ==
    /\ pc = "write"
    /\ out' = dedup
    /\ pc' = "done"
    /\ UNCHANGED <<data, rules, feeds, fi, cur, ei, log, clock, items,
                   per_source_count, dedup, pi, probe, verdict>>

Next ==
    \/ LoadRules
    \/ ParseOpml
    \/ OpmlError
    \/ FetchFeed
    \/ ProcessEntry
    \/ EndFeed
    \/ SortDedup
    \/ PinStep
    \/ Truncate
    \/ WriteOut

Spec == Init /\ [][Next]_vars

\* The same run under two of the rule documents (a per-source cap; two pins
\* and max_items = 1), with the steps of the single control flow taken as
\* long as one is enabled.
DocsLive ==
    {[D0 EXCEPT !.max_per_source = MMap(KeyX :> IntV(1))],
     [D0 EXCEPT !.max_items = IntV(1), !.pin = PList(SubSeq(PinSeq, 1, 2))]}

InitLive ==
    /\ data \in DocsLive
    /\ rules = defaults
    /\ feeds = <<>> /\ fi = 0 /\ cur = <<>> /\ ei = 0 /\ log = <<>>
    /\ clock = Now0
    /\ items = <<>> /\ per_source_count = <<>>
    /\ dedup = <<>> /\ pi = 0 /\ out = <<>>
    /\ pc = "load"
    /\ probe = NoItem /\ verdict = TRUE

LiveSpec == InitLive /\ [][Next]_vars /\ WF_vars(Next)

\* ------------------------------------------- the rule evaluator on its own
\* allowed_by_lists applied to a normalised item under rule sets that are
\* changed one list or one limit at a time.
MaxLists == 2

V1 == Entry(<<"A", "b">>, U1, <<>>, <<"A", "b">>, <<Tag(<<"a", "b">>, <<>>)>>, 9, 0)
V2 == Entry(<<"b">>, <<>>, <<"a">>, <<>>, <<Tag(<<"A">>, <<>>)>>, 10, 0)
V3 == Entry(<<>>, U2, <<>>, <<"b">>, <<>>, 0, 0)
EvalItems ==
    {norm_item(V1, <<"A", "b">>, Now0), norm_item(V2, <<>>, Now0),
     norm_item(V3, <<>>, Now0)}
NeedleLists == {<<>>, << <<"a">> >>, << <<>> >>, << <<"b">>, <<"X">> >>}
NonEmptyLists(r) == {f \in ListFields : r[f] # <<>>}

InitEval ==
    /\ data = D0
    /\ rules = defaults
    /\ feeds = <<>> /\ fi = 0 /\ cur = <<>> /\ ei = 0 /\ log = <<>>
    /\ clock = Now0
    /\ items = <<>> /\ per_source_count = <<>>
    /\ dedup = <<>> /\ pi = 0 /\ out = <<>>
    /\ pc = "eval"
    /\ probe \in EvalItems
    /\ verdict = allowed_by_lists(probe, rules, clock)

\* one list of the rule set is replaced, the item is evaluated again
SetList ==
    /\ pc = "eval"
    /\ \E f \in ListFields, v \in NeedleLists :
          /\ v # rules[f]
          /\ Cardinality(NonEmptyLists([rules EXCEPT ![f] = v])) <= MaxLists
          /\ rules' = [rules EXCEPT ![f] = v]
    /\ verdict' = allowed_by_lists(probe, rules', clock)
    /\ UNCHANGED <<data, feeds, fi, cur, ei, log, clock, items, per_source_count,
                   dedup, pi, out, pc, probe>>

\* the two limits are replaced, the item is evaluated again
SetLimits ==
    /\ pc = "eval"
    /\ \E m \in {0, 2}, a \in {1, DefaultMaxAgeDays} :
          /\ <<m, a>> # <<rules.min_title_length, rules.max_age_days>>
          /\ rules' = [rules EXCEPT !.min_title_length = m, !.max_age_days = a]
    /\ verdict' = allowed_by_lists(probe, rules', clock)
    /\ UNCHANGED <<data, feeds, fi, cur, ei, log, clock, items, per_source_count,
                   dedup, pi, out, pc, probe>>

\* another item is evaluated under the same rule set
PickItem ==
    /\ pc = "eval"
    /\ \E it \in EvalItems : it # probe /\ probe' = it
    /\ verdict' = allowed_by_lists(probe', rules, clock)
    /\ UNCHANGED <<data, rules, feeds, fi, cur, ei, log, clock, items,
                   per_source_count, dedup, pi, out, pc>>

NextEval ==
    \/ SetList
    \/ SetLimits
    \/ PickItem

SpecEval == InitEval /\ [][NextEval]_vars

\* ---------------------------------------------------------- properties
Fetched(sq) == SelectSeq(sq, LAMBDA it : ~it.pinned)
Pinned(sq)  == SelectSeq(sq, LAMBDA it : it.pinned)
FromFeed(k) == SelectSeq(items, LAMBDA it : it.feed = k)
KeyOfItem(it) == cap_key(feeds[it.feed])
CollectedUnder(key) == {i \in 1..Len(items) : KeyOfItem(items[i]) = key}
InFeedLoop == pc \in {"loop", "entries"}

\* C10: at every point of the feed loop, per_source_count[k] is the number of
\* items collected so far from the feeds whose cap key is k (whichever of
\* them they came from), it never exceeds max(cap(k), 0), and no item was
\* collected under a key that has no counter.
C10_CountMatchesItems ==
    InFeedLoop =>
        /\ \A k \in DOMAIN per_source_count :
              /\ per_source_count[k] = Cardinality(CollectedUnder(k))
              /\ per_source_count[k] <= Max(cap_of(rules, k), 0)
        /\ \A i \in 1..Len(items) : KeyOfItem(items[i]) \in DOMAIN per_source_count

\* two feeds with one cap key have both contributed and together fill the cap
C10_Witness ==
    /\ InFeedLoop
    /\ \E i, j \in 1..Len(items) :
          /\ items[i].feed # items[j].feed
          /\ KeyOfItem(items[i]) = KeyOfItem(items[j])
          /\ per_source_count[KeyOfItem(items[i])] = cap_of(rules, KeyOfItem(items[i]))

\* C4 -- the feed whose entry loop has just ended had N entries that all pass
\* allowed_by_lists and a configured integer limit C < N on its cap key
FeedLoopEnded == pc = "entries" /\ ei > Len(cur)
CapConfigured(key) ==
    /\ key \in DOMAIN rules.max_per_source
    /\ rules.max_per_source[key].k \in {"int", "numstr"}
CappedFeedCase ==
    /\ FeedLoopEnded
    /\ CapConfigured(cap_key(feeds[fi]))
    /\ cap_of(rules, cap_key(feeds[fi])) < Len(cur)
    /\ \A i \in 1..Len(cur) :
          allowed_by_lists(norm_item(cur[i], feeds[fi].title, clock), rules, clock)
Core(it) ==
    [id |-> it.id, title |-> it.title, link |-> it.link, summary |-> it.summary,
     isoDate |-> it.isoDate, source |-> it.source, author |-> it.author,
     tags |-> it.tags, pinned |-> it.pinned]
CoreSeq(sq) == [i \in 1..Len(sq) |-> Core(sq[i])]
FirstNormalised(n) ==
    [i \in 1..n |-> norm_item(cur[i], feeds[fi].title, clock)]
\* items collected under this feed's cap key by the feeds before it
EarlierUnderKey ==
    Cardinality({i \in CollectedUnder(cap_key(feeds[fi])) : items[i].feed < fi})

\* C4 as stated (read for a limit C >= 0): exactly C items of the feed are
\* collected, and they are its first C entries
C4_ExactlyCap ==
    CappedFeedCase /\ cap_of(rules, cap_key(feeds[fi])) >= 0 =>
        LET C == cap_of(rules, cap_key(feeds[fi]))
        IN  /\ Len(FromFeed(fi)) = C
            /\ CoreSeq(FromFeed(fi)) = FirstNormalised(C)

\* C4 amended: the feed contributes exactly max(0, C - c) items, c being the
\* number of items earlier feeds collected under the same cap key, and they
\* are its first entries in the feed's own order.
C4_CapMinusEarlier ==
    CappedFeedCase =>
        LET C == cap_of(rules, cap_key(feeds[fi]))
            n == Max(0, C - EarlierUnderKey)
        IN  /\ Len(FromFeed(fi)) = n
            /\ CoreSeq(FromFeed(fi)) = FirstNormalised(n)

\* a capped feed that finds part of the cap used by an earlier feed
C4_Witness ==
    /\ CappedFeedCase
    /\ EarlierUnderKey >= 1
    /\ cap_of(rules, cap_key(feeds[fi])) >= 1

\* C5 -- the de-duplicated list before truncation
SameKey(i) == {j \in 1..Len(items) : dedup_key(items[j]) = dedup_key(items[i])}
\* of the items sharing i's key: the latest isoDate, the first collected of those
Survivor(i) ==
    CHOOSE j \in SameKey(i) :
        \A m \in SameKey(i) :
            /\ ~IsoGreater(items[m].isoDate, items[j].isoDate)
            /\ items[m].isoDate = items[j].isoDate => j <= m

\* C5: of the collected items that share a dedup key exactly one is in the
\* list before truncation, the one with the latest isoDate and, among equal
\* isoDates, the one collected first; no two fetched items there share a key.
C5_DedupKeepsNewestFirstSeen ==
    pc = "pin" =>
        LET F == Fetched(dedup)
        IN  /\ \A i \in 1..Len(items) :
                  {d \in 1..Len(F) : F[d].seq \in SameKey(i)} # {}
                  /\ \A d \in 1..Len(F) :
                        F[d].seq \in SameKey(i) => F[d] = items[Survivor(i)]
            /\ \A a, b \in 1..Len(F) : a # b => dedup_key(F[a]) # dedup_key(F[b])

\* two different items with one key and one isoDate were collected, and two
\* with one key of which the later collected is the newer
C5_Witness ==
    /\ pc = "pin"
    /\ \E i, j \in 1..Len(items) :
          /\ i < j
          /\ dedup_key(items[i]) = dedup_key(items[j])
          /\ items[i].isoDate = items[j].isoDate
          /\ Core(items[i]) # Core(items[j])
    /\ \E i, j \in 1..Len(items) :
          /\ i < j
          /\ dedup_key(items[i]) = dedup_key(items[j])
          /\ IsoGreater(items[j].isoDate, items[i].isoDate)

\* C9: in the written list the fetched items are in non-increasing isoDate
\* order, and fetched items of one isoDate are in the order of collection.
C9_NewestFirstStable ==
    pc = "done" =>
        LET F == Fetched(out)
        IN  \A a, b \in 1..Len(F) :
                a < b =>
                    /\ ~IsoGreater(F[b].isoDate, F[a].isoDate)
                    /\ F[a].isoDate = F[b].isoDate => F[a].seq < F[b].seq

\* the written list holds two fetched items of one isoDate after a newer one
C9_Witness ==
    /\ pc = "done"
    /\ LET F == Fetched(out)
       IN  /\ Len(F) >= 3
           /\ IsoGreater(F[1].isoDate, F[2].isoDate)
           /\ F[2].isoDate = F[3].isoDate

\* C1, C3 -- the pinned items of a list
IsPinOf(it, p) ==
    /\ it.pinned
    /\ it.source = <<"P", "i", "n", "n", "e", "d">>
    /\ it.link = p.url /\ it.title = p.title /\ it.summary = p.note
PinPresent(sq, p) == \E j \in 1..Len(sq) : IsPinOf(sq[j], p)
DedupOfItems == dedup_loop(sorted_desc(items), {}, <<>>)

\* C1 as stated (read for the runs whose list is written whole): the pinned
\* items of the written list are at its top in configuration order (the i-th
\* item is the i-th configured pin), and every pinned item precedes every
\* fetched item.
C1_PinsInConfiguredOrder ==
    pc = "done" /\ Len(out) = Len(rules.pin) + Len(DedupOfItems) =>
        LET np == Len(Pinned(out))
        IN  \A i \in 1..Len(out) :
                IF i <= np THEN IsPinOf(out[i], rules.pin[i]) ELSE ~out[i].pinned

\* the integer the rule document sets for max_items, 500 when it sets none
ConfiguredMaxItems ==
    IF data.top = "map" /\ data.max_items.k = "int"
    THEN data.max_items.n ELSE DefaultMaxItems

\* C2 as stated: the written list has min(L, max_items) items, L the pinned
\* plus the de-duplicated fetched items and max_items the configured integer
\* (500 when absent or no integer); a negative result is read as 0.
C2_LengthIsMin ==
    pc = "done" =>
        Len(out) = Max(0, Min(Len(rules.pin) + Len(DedupOfItems), ConfiguredMaxItems))

\* C3 as stated (read for a configured max_items >= 1): every configured pin
\* is in the written list, whatever the rule set and the feeds are.
C3_PinsAlwaysWritten ==
    pc = "done" /\ data.top = "map" /\ data.max_items.k = "int" /\ data.max_items.n >= 1 =>
        \A i \in 1..Len(rules.pin) : PinPresent(out, rules.pin[i])

\* C3 amended: every configured pin yields a pinned item with source "Pinned"
\* in the list before truncation, whatever the filters, caps and feeds are,
\* and no fetched item is displaced by it; the pin is in the written list
\* whenever the loaded max_items is at least the number of pins.
C3_PinsWrittenWithinMaxItems ==
    /\ pc = "pin" =>
          /\ \A i \in 1..(pi - 1) : PinPresent(dedup, rules.pin[i])
          /\ Len(Pinned(dedup)) = pi - 1
          /\ Fetched(dedup) = DedupOfItems
    /\ pc = "done" /\ rules.max_items >= Len(rules.pin) =>
          \A i \in 1..Len(rules.pin) : PinPresent(out, rules.pin[i])

\* two pins written with max_items = 2 while a fetched item has a pin's link
C3_Witness ==
    /\ pc = "done"
    /\ Len(rules.pin) = 2 /\ rules.max_items = 2
    /\ \E i \in 1..Len(items) : items[i].link = rules.pin[1].url
    /\ \A i \in 1..2 : PinPresent(out, rules.pin[i])

\* C8 as stated: no shape of the rule document makes the run end in an
\* uncaught exception.
C8_RuleDocumentNeverAborts == pc # "crash"

\* C7 -- the run the feed loop would make over the feeds whose fetch succeeded
RECURSIVE run_entries(_, _, _, _, _, _)
run_entries(st, es, f, k, r, now) ==
    IF es = <<>> THEN st
    ELSE run_entries(entry_step(st, es[1], f, k, r, now), Tail(es), f, k, r, now)
RECURSIVE run_ok_feeds(_, _, _)
run_ok_feeds(st, k, n) ==
    IF k > n THEN st
    ELSE IF log[k].status # "ok" THEN run_ok_feeds(st, k + 1, n)
    ELSE run_ok_feeds(
           run_entries([items |-> st.items, cnt |-> setdefault(st.cnt, cap_key(feeds[k]))],
                       log[k].got, feeds[k], k, rules, log[k].at),
           k + 1, n)
ItemsWithoutFailedFeeds ==
    run_ok_feeds([items |-> <<>>, cnt |-> <<>>], 1, Len(log)).items
FetchJustFailed == pc = "entries" /\ log[fi].status # "ok"

\* C7: a feed whose fetch fails contributes no entry and no item; between
\* feeds and after the loop the collected items are those of a run over the
\* list without the failed feeds; a written list comes after every feed was
\* fetched; and a failed fetch is always followed by the output being written.
C7_FailedFetchIsNotFatal ==
    /\ [](\A k \in 1..Len(log) :
             log[k].status # "ok" => log[k].got = <<>> /\ FromFeed(k) = <<>>)
    /\ [](pc \in {"loop", "pin", "write", "done"} =>
             CoreSeq(items) = CoreSeq(ItemsWithoutFailedFeeds))
    /\ [](pc = "done" => Len(log) = Len(feeds))
    /\ (FetchJustFailed ~> pc = "done")

\* a list was written with items of a feed that comes after a failed one
C7_Witness ==
    /\ pc = "done"
    /\ \E k, m \in 1..Len(log) :
          /\ k < m
          /\ log[k].status # "ok"
          /\ \E j \in 1..Len(out) : out[j].feed = m

\* C6 -- the seven predicates, each on its own
Text(it)   == casefold(it.title \o <<" ">> \o it.summary)
Dom(it)    == to_domain(it.link)
SrcHit(it) == casefold(IF it.source # <<>> THEN it.source ELSE Dom(it))
TagSet(it) == {casefold(it.tags[i]) : i \in 1..Len(it.tags)}
Elems(l)   == {casefold(l[i]) : i \in 1..Len(l)}
Preds == {"keyword", "blocklist", "age", "source", "author", "tag", "title"}
Owner(f) ==
    CASE f = "include_keywords"   -> "keyword"
      [] f = "blocklist_keywords" -> "blocklist"
      [] f \in {"include_sources", "exclude_sources"} -> "source"
      [] f \in {"include_authors", "exclude_authors"} -> "author"
      [] OTHER -> "tag"

PredPass(p, it, r, now) ==
    CASE p = "keyword" ->
           r.include_keywords = <<>>
           \/ \E n \in Elems(r.include_keywords) \ {<<>>} : IsSubstr(n, Text(it))
      [] p = "blocklist" ->
           ~\E n \in Elems(r.blocklist_keywords) \ {<<>>} : IsSubstr(n, Text(it))
      [] p = "age" -> now - strptime(it.isoDate) <= r.max_age_days
      [] p = "source" ->
           /\ r.include_sources = <<>>
              \/ \E n \in Elems(r.include_sources) : n = SrcHit(it) \/ n = Dom(it)
           /\ ~\E n \in Elems(r.exclude_sources) \ {<<>>} :
                 IsSubstr(n, SrcHit(it)) \/ n = Dom(it)
      [] p = "author" ->
           /\ r.include_authors = <<>>
              \/ \E n \in Elems(r.include_authors) \ {<<>>} : IsSubstr(n, casefold(it.author))
           /\ ~\E n \in Elems(r.exclude_authors) \ {<<>>} : IsSubstr(n, casefold(it.author))
      [] p = "tag" ->
           /\ r.include_tags = <<>> \/ Elems(r.include_tags) \cap TagSet(it) # {}
           /\ Elems(r.exclude_tags) \cap TagSet(it) = {}
      [] OTHER -> Len(it.title) >= r.min_title_length

\* the include lists as the claim words them: the item's text contains at
\* least one listed needle as a case-folded substring
IncludedBySubstring(l, texts) ==
    l = <<>> \/ \E n \in Elems(l), t \in texts : IsSubstr(n, t)
PredPassAsClaimed(p, it, r, now) ==
    CASE p = "keyword" -> IncludedBySubstring(r.include_keywords, {Text(it)})
      [] p = "source" ->
           /\ IncludedBySubstring(r.include_sources, {SrcHit(it), Dom(it)})
           /\ ~\E n \in Elems(r.exclude_sources) \ {<<>>} :
                 IsSubstr(n, SrcHit(it)) \/ n = Dom(it)
      [] p = "author" ->
           /\ IncludedBySubstring(r.include_authors, {casefold(it.author)})
           /\ ~\E n \in Elems(r.exclude_authors) \ {<<>>} : IsSubstr(n, casefold(it.author))
      [] p = "tag" ->
           /\ IncludedBySubstring(r.include_tags, TagSet(it))
           /\ Elems(r.exclude_tags) \cap TagSet(it) = {}
      [] OTHER -> PredPass(p, it, r, now)

NoEmptyNeedle(r) == \A f \in ListFields : <<>> \notin Elems(r[f])

\* C6 as stated (read for rule sets without empty needles): the verdict is
\* the conjunction of the seven predicates, an include list passing on a
\* substring match of one of its needles.
C6_AllPredicatesSubstring ==
    pc = "eval" /\ NoEmptyNeedle(rules) =>
        verdict = \A p \in Preds : PredPassAsClaimed(p, probe, rules, clock)

\* only list f differs between the rule set before and after the step
OnlyListChanged(f) ==
    /\ probe' = probe
    /\ rules'[f] # rules[f]
    /\ rules' = [rules EXCEPT ![f] = rules'[f]]

\* C6 amended: the verdict is the conjunction of the seven predicates, where
\* include_keywords and include_authors pass on a case-folded substring match
\* of a non-empty needle, include_sources on a needle equal to the item's
\* source or domain, include_tags on a needle equal to one of the item's
\* tags; and replacing one list changes the verdict only through the
\* predicate of that list.
C6_AllPredicatesIndependent ==
    /\ [](pc = "eval" => verdict = \A p \in Preds : PredPass(p, probe, rules, clock))
    /\ [][\A f \in ListFields :
             OnlyListChanged(f) =>
                 verdict' = /\ \A p \in Preds \ {Owner(f)} : PredPass(p, probe, rules, clock)
                            /\ PredPass(Owner(f), probe, rules', clock)]_vars

\* an item that every other predicate accepts is rejected by include_tags
\* although one of its tags contains the needle
C6_Witness ==
    /\ pc = "eval"
    /\ rules.include_tags # <<>>
    /\ ~verdict
    /\ \A p \in Preds \ {"tag"} : PredPass(p, probe, rules, clock)
    /\ IncludedBySubstring(rules.include_tags, TagSet(probe))

====
